---- MODULE Spec2Model ----
(***************************************************************************)
(* A model of generate_ics.py: the prayer-time normaliser, the collection  *)
(* of the 180-day horizon, the derivation of the events, the line folding  *)
(* and the driver.                                                         *)
(*                                                                         *)
(* Representation.                                                         *)
(*   - a string is a sequence of characters, a character a TLA+ string;    *)
(*     a character outside ASCII is named by its code point ("U+2014");    *)
(*   - Python's None is the empty tuple, a (hour, minute) pair <<h, m>>;   *)
(*   - a date is <<year, month, day>>, a wall-clock datetime               *)
(*     [date |-> <<y, m, d>>, min |-> minutes since midnight];             *)
(*   - a dict is the sequence of its [k, v] items in insertion order.      *)
(***************************************************************************)
EXTENDS Integers, Sequences, FiniteSets, TLC

VARIABLES
    pc,              \* position of the running function
    raw,             \* parse_prayer_time: the raw string
    prayer_key,      \* parse_prayer_time: the slot
    result,          \* parse_prayer_time: the value returned
    line,            \* fold_line: the content line
    folded,          \* fold_line: the value returned
    today,           \* collect_prayer_times: datetime.now(TZ).date()
    end_date,        \* collect_prayer_times: today + DAYS_AHEAD
    d,               \* collect_prayer_times: cursor of the month loop
    months_to_fetch, \* collect_prayer_times: set of (year, month)
    queue,           \* sorted(months_to_fetch) not yet iterated
    fetch_log,       \* history: the periods fetch_month was called with
    responses,       \* history: the table rows each fetch received
    rows_seen,       \* history: number of table rows received so far
    all_days,        \* the date -> times dict
    parts,           \* generate_ics: the parts of the document
    output,          \* the content of OUTPUT_FILE (<<>>: never written)
    writes,          \* number of times OUTPUT_FILE was written
    exit_code        \* -1 while running, else the process's exit status

vars == << pc, raw, prayer_key, result, line, folded, today, end_date, d,
           months_to_fetch, queue, fetch_log, responses, rows_seen,
           all_days, parts, output, writes, exit_code >>

parseVars == << raw, prayer_key, result >>
foldVars == << line, folded >>
mainVars == << today, end_date, d, months_to_fetch, queue, fetch_log,
               responses, rows_seen, all_days, parts, output, writes,
               exit_code >>

-----------------------------------------------------------------------------
(* Bounds of the model.                                                    *)

\* longest raw string given to parse_prayer_time on its own
MaxRawLen == 5

\* most runs of one repeated character a folded content line is made of
MaxRuns == 2

\* most table rows the time source returns during one run of main
MaxRows == 2

-----------------------------------------------------------------------------
(* Sequences.                                                              *)

None == << >>

Min(a, b) == IF a < b THEN a ELSE b

\* s[:n]
Take(s, n) == SubSeq(s, 1, Min(n, Len(s)))

\* s[n:]
Drop(s, n) == SubSeq(s, Min(n, Len(s)) + 1, Len(s))

RECURSIVE SeqsUpTo(_, _)
\* the sequences over S of length at most n
SeqsUpTo(S, n) ==
    IF n = 0 THEN { << >> }
    ELSE LET shorter == SeqsUpTo(S, n - 1)
         IN  shorter \cup { Append(s, x) : s \in shorter, x \in S }

RECURSIVE Rep(_, _)
Rep(c, n) == IF n = 0 THEN << >> ELSE << c >> \o Rep(c, n - 1)

RECURSIVE Concat(_)
Concat(ss) == IF ss = << >> THEN << >> ELSE Head(ss) \o Concat(Tail(ss))

-----------------------------------------------------------------------------
(* parse_prayer_time                                                       *)

PrayerSlots == { "fajr", "sunrise", "dhuhr", "asr", "maghrib", "isha" }

Digits == { "0", "1", "2", "3", "4", "5", "6", "7", "8", "9" }

\* int() of one decimal digit
DigitVal(c) ==
    CASE c = "0" -> 0 [] c = "1" -> 1 [] c = "2" -> 2 [] c = "3" -> 3
      [] c = "4" -> 4 [] c = "5" -> 5 [] c = "6" -> 6 [] c = "7" -> 7
      [] c = "8" -> 8 [] c = "9" -> 9

IsDigitAt(s, i) == i <= Len(s) /\ s[i] \in Digits

\* re.match(r"(\d{1,2}):(\d{2})", raw): the groups <<hour text, minute text>>
\* of the match anchored at the start of raw, or None.  \d{1,2} is greedy:
\* two digits are tried first, and one digit only when the second character
\* is not a digit.
ReMatch(s) ==
    IF /\ IsDigitAt(s, 1) /\ IsDigitAt(s, 2) /\ Len(s) >= 3 /\ s[3] = ":"
       /\ IsDigitAt(s, 4) /\ IsDigitAt(s, 5)
    THEN << SubSeq(s, 1, 2), SubSeq(s, 4, 5) >>
    ELSE IF /\ IsDigitAt(s, 1) /\ Len(s) >= 2 /\ s[2] = ":"
            /\ IsDigitAt(s, 3) /\ IsDigitAt(s, 4)
    THEN << SubSeq(s, 1, 1), SubSeq(s, 3, 4) >>
    ELSE None

RECURSIVE IntOf(_)
\* int() of a string of decimal digits
IntOf(s) ==
    IF s = << >> THEN 0
    ELSE 10 * IntOf(SubSeq(s, 1, Len(s) - 1)) + DigitVal(s[Len(s)])

\* a variant that moves dhuhr to the afternoon as well
NeedsPMLoose(key, hour) == key \in { "dhuhr", "asr", "maghrib", "isha" } /\ hour < 12

\* the condition of the +12 adjustment
NeedsPM(key, hour) == key \in { "asr", "maghrib", "isha" } /\ hour < 12

parse_prayer_time(s, key) ==
    LET match == ReMatch(s)
    IN  IF match = None THEN None
        ELSE LET hour == IntOf(match[1])
                 minute == IntOf(match[2])
             IN  IF NeedsPM(key, hour) THEN << hour + 12, minute >>
                 ELSE << hour, minute >>

\* the characters the raw strings of ParseSpec are made of
ParseAlphabet == { "0", "1", "2", "5", "6", ":", "x" }

ParseInputs == SeqsUpTo(ParseAlphabet, MaxRawLen)

-----------------------------------------------------------------------------
(* fold_line                                                               *)

\* the RFC 5545 limit on the octets of a physical line
FoldLimit == 75

\* len(c.encode("utf-8")) of one character
Utf8Width(c) ==
    CASE c = "U+00E9" -> 2      \* e with acute accent
      [] c = "U+2014" -> 3      \* em dash, used by the descriptions
      [] c = "U+1F54C" -> 4     \* mosque
      [] OTHER -> 1             \* ASCII

\* the number of characters of s that encode to w octets
CountWidth(s, w) == Cardinality({ i \in 1..Len(s) : Utf8Width(s[i]) = w })

\* len(s.encode("utf-8"))
Utf8Len(s) ==
    CountWidth(s, 1) + 2 * CountWidth(s, 2) + 3 * CountWidth(s, 3)
    + 4 * CountWidth(s, 4)

\* a variant that cuts after 75 characters whatever their octets
SafeCutNoBytes(s, cut) == cut

RECURSIVE SafeCut(_, _)
\* the inner while loop: the largest cut <= the given one whose prefix fits
SafeCut(s, cut) ==
    IF cut > 0 /\ Utf8Len(Take(s, cut)) > FoldLimit
    THEN SafeCut(s, cut - 1)
    ELSE cut

\* a variant that drops the character at the cut
ContinuationLossy(s, cut) == << " " >> \o Drop(s, cut + 1)

\* line = " " + line[cut:]
Continuation(s, cut) == << " " >> \o Drop(s, cut)

RECURSIVE FoldLoop(_, _)
\* the outer while loop, from its test: the list of physical lines
FoldLoop(s, res) ==
    IF Utf8Len(s) > FoldLimit
    THEN LET c0 == SafeCut(s, FoldLimit)
             cut == IF c0 = 0 THEN 1 ELSE c0
         IN  FoldLoop(Continuation(s, cut), Append(res, Take(s, cut)))
    ELSE Append(res, s)

RECURSIVE Join(_, _)
\* sep.join(ss)
Join(sep, ss) ==
    IF ss = << >> THEN << >>
    ELSE IF Len(ss) = 1 THEN ss[1]
    ELSE ss[1] \o sep \o Join(sep, Tail(ss))

CRLF == << "CR", "LF" >>

fold_line(s) == Join(CRLF, FoldLoop(s, << >>))

\* the characters the content lines of FoldSpec are made of
FoldAlphabet == { "a", " ", "U+00E9", "U+2014", "U+1F54C" }

\* the lengths of the runs
RunLens == { 1, 18, 74, 75 }

FoldRuns == { Rep(c, n) : c \in FoldAlphabet, n \in RunLens }

FoldInputs == { Concat(rs) : rs \in SeqsUpTo(FoldRuns, MaxRuns) }

-----------------------------------------------------------------------------
(* The calendar of datetime.date.                                          *)

IsLeap(y) == (y % 4 = 0 /\ y % 100 # 0) \/ y % 400 = 0

DaysInMonth(y, m) ==
    CASE m \in { 1, 3, 5, 7, 8, 10, 12 } -> 31
      [] m \in { 4, 6, 9, 11 } -> 30
      [] OTHER -> IF IsLeap(y) THEN 29 ELSE 28

\* whether datetime(y, m, dd) is constructed (else it raises ValueError)
IsValidDate(y, m, dd) ==
    y \in 1..9999 /\ m \in 1..12 /\ dd \in 1..DaysInMonth(y, m)

\* a < b on tuples of integers of one length, as Python compares them
RECURSIVE TupleLess(_, _)
TupleLess(a, b) ==
    IF a = << >> THEN FALSE
    ELSE IF Head(a) # Head(b) THEN Head(a) < Head(b)
    ELSE TupleLess(Tail(a), Tail(b))

DateLE(a, b) == a = b \/ TupleLess(a, b)

NextDay(dt) ==
    IF dt[3] < DaysInMonth(dt[1], dt[2]) THEN << dt[1], dt[2], dt[3] + 1 >>
    ELSE IF dt[2] < 12 THEN << dt[1], dt[2] + 1, 1 >>
    ELSE << dt[1] + 1, 1, 1 >>

PrevDay(dt) ==
    IF dt[3] > 1 THEN << dt[1], dt[2], dt[3] - 1 >>
    ELSE IF dt[2] > 1 THEN << dt[1], dt[2] - 1, DaysInMonth(dt[1], dt[2] - 1) >>
    ELSE << dt[1] - 1, 12, 31 >>

RECURSIVE DaysBeforeMonth(_, _)
DaysBeforeMonth(y, m) ==
    IF m = 1 THEN 0 ELSE DaysBeforeMonth(y, m - 1) + DaysInMonth(y, m - 1)

\* dt.toordinal()
ToOrdinal(dt) ==
    LET y1 == dt[1] - 1
    IN  365 * y1 + (y1 \div 4) - (y1 \div 100) + (y1 \div 400)
        + DaysBeforeMonth(dt[1], dt[2]) + dt[3]

RECURSIVE AddDays(_, _)
\* dt + timedelta(days=k), a month at a time
AddDays(dt, k) ==
    LET last == DaysInMonth(dt[1], dt[2])
    IN  IF dt[3] + k \in 1..last THEN << dt[1], dt[2], dt[3] + k >>
        ELSE IF k > 0
        THEN AddDays(NextDay(<< dt[1], dt[2], last >>), k - (last - dt[3] + 1))
        ELSE AddDays(PrevDay(<< dt[1], dt[2], 1 >>), k + dt[3])

\* dt.weekday(): Monday is 0
Weekday(dt) == (ToOrdinal(dt) + 6) % 7

\* a wall-clock datetime plus k minutes (k may be negative)
DtAddMinutes(t, k) ==
    LET total == t.min + k
    IN  [ date |-> AddDays(t.date, total \div 1440), min |-> total % 1440 ]

DtLess(a, b) == TupleLess(a.date \o << a.min >>, b.date \o << b.min >>)

-----------------------------------------------------------------------------
(* Dicts and sorting.                                                      *)

RECURSIVE Keys(_)
\* list(dict.keys())
Keys(dict) ==
    IF dict = << >> THEN << >> ELSE << Head(dict).k >> \o Keys(Tail(dict))

HasKey(dict, key) == \E i \in 1..Len(dict) : dict[i].k = key

\* dict[key], for a key of the dict
Get(dict, key) == dict[CHOOSE i \in 1..Len(dict) : dict[i].k = key].v

\* dict[key] = val: a new key is appended, an old one keeps its place
DictPut(dict, key, val) ==
    IF HasKey(dict, key)
    THEN [ i \in 1..Len(dict) |->
             IF dict[i].k = key THEN [ k |-> key, v |-> val ] ELSE dict[i] ]
    ELSE Append(dict, [ k |-> key, v |-> val ])

RECURSIVE SortSet(_)
\* sorted(S) for a set of tuples of integers
SortSet(S) ==
    IF S = { } THEN << >>
    ELSE LET least == CHOOSE x \in S : \A z \in S : z = x \/ TupleLess(x, z)
         IN  << least >> \o SortSet(S \ { least })

Range(s) == { s[i] : i \in 1..Len(s) }

\* a variant that keeps the insertion order
Unsorted(s) == s

\* sorted(s) for a list of distinct tuples of integers
sorted(s) == SortSet(Range(s))

-----------------------------------------------------------------------------
(* Configuration.                                                          *)

DAYS_AHEAD == 180

Event(key, summary, offset, duration, alarm, slot) ==
    [ key |-> key, summary |-> summary, offset |-> offset,
      duration |-> duration, alarm |-> alarm, prayer_key |-> slot ]

EVENTS == <<
    Event("prefajr", "Pre-Fajr Programme",    60, 60, 10, "fajr"),
    Event("fajr",    "Fajr + Wird Bite A",     0, 20,  5, "fajr"),
    Event("dhuhr",   "Dhuhr + Wird Bite B",    0, 15,  5, "dhuhr"),
    Event("asr",     "Asr + Wird Bite C",      0, 15,  5, "asr"),
    Event("maghrib", "Maghrib + Wird Bite D",  0, 15,  5, "maghrib"),
    Event("isha",    "Isha + Wird Bite E",     0, 25,  5, "isha") >>

\* the text of the description, named by its constant; that of the fajr event
\* carries the salawat target
get_description(event_key, salawat) ==
    CASE event_key = "prefajr" -> << "PREFAJR_DESC" >>
      [] event_key = "fajr" -> << "WIRD_BITE_A", salawat >>
      [] event_key = "dhuhr" -> << "WIRD_BITE_B" >>
      [] event_key = "asr" -> << "WIRD_BITE_C" >>
      [] event_key = "maghrib" -> << "WIRD_BITE_D" >>
      [] event_key = "isha" -> << "WIRD_BITE_E" >>
      [] OTHER -> << >>

-----------------------------------------------------------------------------
(* fetch_month                                                             *)

time_keys == << "fajr", "sunrise", "dhuhr", "asr", "maghrib", "isha" >>

RECURSIVE LStrip(_)
LStrip(s) == IF s # << >> /\ Head(s) = " " THEN LStrip(Tail(s)) ELSE s

RECURSIVE RStrip(_)
RStrip(s) ==
    IF s # << >> /\ s[Len(s)] = " " THEN RStrip(SubSeq(s, 1, Len(s) - 1)) ELSE s

\* s.strip()
Strip(s) == RStrip(LStrip(s))

\* whether int(s) returns (a string of decimal digits); else ValueError
IsInt(s) == s # << >> /\ \A i \in 1..Len(s) : s[i] \in Digits

\* the times dict of one table row
RowTimes(row) ==
    [ key \in PrayerSlots |->
        LET i == CHOOSE j \in 1..Len(time_keys) : time_keys[j] = key
        IN  parse_prayer_time(Strip(row.cells[i]), key) ]

AllParsed(times) == \A key \in PrayerSlots : times[key] # None

RECURSIVE ScanRows(_, _)
\* the loop over the table rows: the days dict
ScanRows(rows, days) ==
    IF rows = << >> THEN days
    ELSE LET row == Head(rows)
         IN  IF ~IsInt(row.day) THEN ScanRows(Tail(rows), days)
             ELSE LET times == RowTimes(row)
                  IN  IF AllParsed(times)
                      THEN ScanRows(Tail(rows), DictPut(days, IntOf(row.day), times))
                      ELSE ScanRows(Tail(rows), days)

\* resp.ok is FALSE when requests raises RequestException; resp.rows are the
\* rows of the page that hold at least nine cells
fetch_month(resp) == IF ~resp.ok THEN << >> ELSE ScanRows(resp.rows, << >>)

-----------------------------------------------------------------------------
(* collect_prayer_times                                                    *)

\* a variant that wraps December to January of the same year
NextMonthSameYear(dt) ==
    IF dt[2] = 12 THEN << dt[1], 1, dt[3] >> ELSE << dt[1], dt[2] + 1, dt[3] >>

\* the step of the month loop
NextMonth(dt) ==
    IF dt[2] = 12 THEN << dt[1] + 1, 1, dt[3] >> ELSE << dt[1], dt[2] + 1, dt[3] >>

\* a variant that leaves today out of the window
InWindowAfterToday(t, dt, e) == TupleLess(t, dt) /\ DateLE(dt, e)

\* today <= dt <= end_date
InWindow(t, dt, e) == DateLE(t, dt) /\ DateLE(dt, e)

RECURSIVE MergeMonth(_, _, _, _, _, _)
\* the loop over month_days.items()
MergeMonth(all, year, month, month_days, t, e) ==
    IF month_days = << >> THEN all
    ELSE LET item == Head(month_days)
             dt == << year, month, item.k >>
         IN  IF ~IsValidDate(year, month, item.k)
             THEN MergeMonth(all, year, month, Tail(month_days), t, e)
             ELSE IF InWindow(t, dt, e)
             THEN MergeMonth(DictPut(all, dt, item.v), year, month,
                             Tail(month_days), t, e)
             ELSE MergeMonth(all, year, month, Tail(month_days), t, e)

-----------------------------------------------------------------------------
(* build_vevent and generate_ics                                           *)

\* a variant that adds the offset
StartOfAdded(date, hour, minute, offset_min) ==
    DtAddMinutes([ date |-> date, min |-> 60 * hour + minute ], offset_min)

\* TZ.localize(datetime(...)) - timedelta(minutes=offset_min): the wall clock
\* of an aware datetime moves by the timedelta, its zone is kept
StartOf(date, hour, minute, offset_min) ==
    DtAddMinutes([ date |-> date, min |-> 60 * hour + minute ], 0 - offset_min)

\* start_dt + timedelta(minutes=duration_min)
EndOf(start_dt, duration_min) == DtAddMinutes(start_dt, duration_min)

\* datetime(y, m, d, hour, minute) raises ValueError outside 0..23, 0..59
build_vevent(date, event_key, summary, prayer_hour, prayer_min, offset_min, duration_min, alarm_min, salawat) ==
    IF ~(prayer_hour \in 0..23 /\ prayer_min \in 0..59)
    THEN [ kind |-> "ValueError" ]
    ELSE LET start_dt == StartOf(date, prayer_hour, prayer_min, offset_min)
         IN  [ kind |-> "vevent",
               uid |-> << date, event_key >>,
               dtstart |-> start_dt,
               dtend |-> EndOf(start_dt, duration_min),
               summary |-> summary,
               description |-> get_description(event_key, salawat),
               trigger |-> alarm_min ]

RECURSIVE EventLoop(_, _, _, _)
\* the loop over EVENTS for one date
EventLoop(evs, date, times, salawat) ==
    IF evs = << >> THEN << >>
    ELSE LET ev == Head(evs)
             prayer_time == times[ev.prayer_key]
         IN  IF prayer_time = None
             THEN EventLoop(Tail(evs), date, times, salawat)
             ELSE << build_vevent(date, ev.key, ev.summary, prayer_time[1],
                                  prayer_time[2], ev.offset, ev.duration,
                                  ev.alarm, salawat) >>
                  \o EventLoop(Tail(evs), date, times, salawat)

Salawat(date) == IF Weekday(date) \in { 0, 3, 4 } THEN 300 ELSE 100

\* what the claimed worship event of a date would be
WorshipEvent(date, times) ==
    [ kind |-> "vevent",
      uid |-> << date, "worship" >>,
      dtstart |-> EndOf(StartOf(date, times["fajr"][1], times["fajr"][2], 0),
                        EVENTS[2].duration),
      dtend |-> [ date |-> date,
                  min |-> 60 * times["sunrise"][1] + times["sunrise"][2] ],
      summary |-> "Worship",
      description |-> << >>,
      trigger |-> 0 ]

\* a variant that derives the worship event after the fajr event
DateEventsWithWorship(date, times) ==
    LET evs == EventLoop(EVENTS, date, times, Salawat(date))
        w == WorshipEvent(date, times)
    IN  IF \A i \in 1..Len(evs) : evs[i].kind = "vevent"
        THEN IF DtLess(w.dtstart, w.dtend)
             THEN SubSeq(evs, 1, 2) \o << w >> \o SubSeq(evs, 3, Len(evs))
             ELSE evs
        ELSE evs

\* the body of the loop over the dates
DateEvents(date, times) == EventLoop(EVENTS, date, times, Salawat(date))

SortedKeys(dict) == sorted(Keys(dict))

RECURSIVE DateLoop(_, _)
DateLoop(dates, all) ==
    IF dates = << >> THEN << >>
    ELSE DateEvents(Head(dates), Get(all, Head(dates))) \o DateLoop(Tail(dates), all)

build_vtimezone == [ kind |-> "vtimezone", tzid |-> "America/Detroit" ]

\* [raised |-> TRUE]: a build_vevent raised ValueError, nothing is returned
generate_ics(all) ==
    LET events == DateLoop(SortedKeys(all), all)
    IN  IF \E i \in 1..Len(events) : events[i].kind = "ValueError"
        THEN [ raised |-> TRUE, parts |-> << >> ]
        ELSE [ raised |-> FALSE,
               parts |-> << [ kind |-> "header" ], build_vtimezone >>
                         \o events \o << [ kind |-> "footer" ] >> ]

-----------------------------------------------------------------------------
(* The initial values of the variables a specification does not use.       *)

ParseIdle == raw = << >> /\ prayer_key = "fajr" /\ result = None

FoldIdle == line = << >> /\ folded = << >>

MainIdle ==
    /\ today = << 1, 1, 1 >>
    /\ end_date = << 1, 1, 1 >>
    /\ d = << 1, 1, 1 >>
    /\ months_to_fetch = { }
    /\ queue = << >>
    /\ fetch_log = << >>
    /\ responses = << >>
    /\ rows_seen = 0
    /\ all_days = << >>
    /\ parts = << >>
    /\ output = << >>
    /\ writes = 0
    /\ exit_code = -1

-----------------------------------------------------------------------------
(* ParseSpec: parse_prayer_time applied to every raw string and slot.      *)

ParseInit ==
    /\ pc = "parse"
    /\ raw \in ParseInputs
    /\ prayer_key \in PrayerSlots
    /\ result = None
    /\ FoldIdle
    /\ MainIdle

Parse ==
    /\ pc = "parse"
    /\ result' = parse_prayer_time(raw, prayer_key)
    /\ pc' = "parsed"
    /\ UNCHANGED << raw, prayer_key, foldVars, mainVars >>

ParseNext == Parse

ParseSpec == ParseInit /\ [][ParseNext]_vars

-----------------------------------------------------------------------------
(* FoldSpec: fold_line applied to every content line of FoldInputs.        *)

FoldInit ==
    /\ pc = "fold"
    /\ line \in FoldInputs
    /\ folded = << >>
    /\ ParseIdle
    /\ MainIdle

Fold ==
    /\ pc = "fold"
    /\ folded' = fold_line(line)
    /\ pc' = "folded"
    /\ UNCHANGED << line, parseVars, mainVars >>

FoldNext == Fold

FoldSpec == FoldInit /\ [][FoldNext]_vars

-----------------------------------------------------------------------------
(* Spec: one run of main, with the clock and the time source as inputs.    *)

\* the values datetime.now(TZ).date() takes: a window that crosses the end of
\* the year, and one that starts on the last day of a month of a leap year
Todays == { << 2024, 8, 15 >>, << 2024, 1, 31 >> }

\* the six time cells of a table row, in the order of time_keys
GoodCells == << << "6", ":", "1", "5" >>, << "7", ":", "4", "0" >>,
                << "1", ":", "0", "5" >>, << "4", ":", "5", "0" >>,
                << "7", ":", "2", "0" >>, << "8", ":", "4", "5" >> >>

\* fajr soon after midnight, sunrise before the fajr event ends, isha late
EarlyCells == << << "0", ":", "3", "0" >>, << "0", ":", "4", "5", " " >>,
                 << "1", "2", ":", "3", "0" >>, << "3", ":", "1", "0" >>,
                 << "5", ":", "0", "5" >>, << "1", "1", ":", "5", "0" >> >>

\* a cell that is no time
DashCells == [ GoodCells EXCEPT ![4] = << "-", "-" >> ]

\* a cell that reads as a time no clock shows
LateCells == [ GoodCells EXCEPT ![1] = << "2", "4", ":", "1", "0" >> ]

CellChoices == { GoodCells, EarlyCells, DashCells, LateCells }

\* the day cell of a table row
DayCells == { << "1" >>, << "3", "1" >> }

RowChoices == [ day : DayCells, cells : CellChoices ]

Init ==
    /\ pc = "main"
    /\ today \in Todays
    /\ end_date = << 1, 1, 1 >>
    /\ d = << 1, 1, 1 >>
    /\ months_to_fetch = { }
    /\ queue = << >>
    /\ fetch_log = << >>
    /\ responses = << >>
    /\ rows_seen = 0
    /\ all_days = << >>
    /\ parts = << >>
    /\ output = << >>
    /\ writes = 0
    /\ exit_code = -1
    /\ ParseIdle
    /\ FoldIdle

\* collect_prayer_times up to the month loop
CollectStart ==
    /\ pc = "main"
    /\ end_date' = AddDays(today, DAYS_AHEAD)
    /\ months_to_fetch' = { }
    /\ d' = << today[1], today[2], 1 >>
    /\ pc' = "months"
    /\ UNCHANGED << parseVars, foldVars, today, queue, fetch_log, responses,
                    rows_seen, all_days, parts, output, writes, exit_code >>

\* one iteration of the month loop
MonthStep ==
    /\ pc = "months"
    /\ DateLE(d, end_date)
    /\ months_to_fetch' = months_to_fetch \cup { << d[1], d[2] >> }
    /\ d' = NextMonth(d)
    /\ UNCHANGED << pc, parseVars, foldVars, today, end_date, queue, fetch_log,
                    responses, rows_seen, all_days, parts, output, writes,
                    exit_code >>

\* the month loop ends; the fetch loop starts over sorted(months_to_fetch)
MonthsDone ==
    /\ pc = "months"
    /\ ~DateLE(d, end_date)
    /\ queue' = SortSet(months_to_fetch)
    /\ all_days' = << >>
    /\ pc' = "fetch"
    /\ UNCHANGED << parseVars, foldVars, today, end_date, d, months_to_fetch,
                    fetch_log, responses, rows_seen, parts, output, writes,
                    exit_code >>

\* one iteration of the fetch loop, given the response of the time source
FetchStep(resp) ==
    /\ pc = "fetch"
    /\ queue # << >>
    /\ LET year == Head(queue)[1]
           month == Head(queue)[2]
           month_days == fetch_month(resp)
       IN  /\ all_days' = MergeMonth(all_days, year, month, month_days,
                                     today, end_date)
           /\ fetch_log' = Append(fetch_log, << year, month >>)
           /\ responses' = Append(responses, IF resp.ok THEN resp.rows ELSE << >>)
           /\ rows_seen' = rows_seen + (IF resp.ok THEN Len(resp.rows) ELSE 0)
    /\ queue' = Tail(queue)
    /\ UNCHANGED << pc, parseVars, foldVars, today, end_date, d,
                    months_to_fetch, parts, output, writes, exit_code >>

\* the request fails: requests.RequestException
FetchFailed == FetchStep([ ok |-> FALSE, rows |-> << >> ])

\* the request succeeds and the page holds some rows
FetchOK ==
    \E rows \in SeqsUpTo(RowChoices, MaxRows - rows_seen) :
        FetchStep([ ok |-> TRUE, rows |-> rows ])

\* collect_prayer_times returns an empty dict: sys.exit(1)
ExitNoData ==
    /\ pc = "fetch"
    /\ queue = << >>
    /\ all_days = << >>
    /\ pc' = "exit_error"
    /\ exit_code' = 1
    /\ UNCHANGED << parseVars, foldVars, today, end_date, d, months_to_fetch,
                    queue, fetch_log, responses, rows_seen, all_days, parts,
                    output, writes >>

\* collect_prayer_times returns some days
Collected ==
    /\ pc = "fetch"
    /\ queue = << >>
    /\ all_days # << >>
    /\ pc' = "generate"
    /\ UNCHANGED << parseVars, foldVars, mainVars >>

\* generate_ics(all_days) returns the document
Generate ==
    /\ pc = "generate"
    /\ ~generate_ics(all_days).raised
    /\ parts' = generate_ics(all_days).parts
    /\ pc' = "write"
    /\ UNCHANGED << parseVars, foldVars, today, end_date, d, months_to_fetch,
                    queue, fetch_log, responses, rows_seen, all_days, output,
                    writes, exit_code >>

\* generate_ics(all_days) raises ValueError, which nothing catches: the
\* interpreter prints the traceback and exits with status 1
GenerateRaises ==
    /\ pc = "generate"
    /\ generate_ics(all_days).raised
    /\ pc' = "crashed"
    /\ exit_code' = 1
    /\ UNCHANGED << parseVars, foldVars, today, end_date, d, months_to_fetch,
                    queue, fetch_log, responses, rows_seen, all_days, parts,
                    output, writes >>

\* the document is written to OUTPUT_FILE and main returns
Write ==
    /\ pc = "write"
    /\ output' = parts
    /\ writes' = writes + 1
    /\ pc' = "done"
    /\ exit_code' = 0
    /\ UNCHANGED << parseVars, foldVars, today, end_date, d, months_to_fetch,
                    queue, fetch_log, responses, rows_seen, all_days, parts >>

Next ==
    \/ CollectStart
    \/ MonthStep
    \/ MonthsDone
    \/ FetchFailed
    \/ FetchOK
    \/ ExitNoData
    \/ Collected
    \/ Generate
    \/ GenerateRaises
    \/ Write

Spec == Init /\ [][Next]_vars

Terminated == pc \in { "done", "exit_error", "crashed" }

-----------------------------------------------------------------------------
(* What the properties below speak of.                                     *)

\* collect_prayer_times has returned
CollectionDone ==
    \/ pc \in { "generate", "write", "done", "exit_error", "crashed" }
    \/ pc = "fetch" /\ queue = << >>

\* generate_ics has returned the document
DocProduced == pc \in { "write", "done" }

\* the event blocks of the document
DocEvents == SubSeq(parts, 3, Len(parts) - 1)

RECURSIVE KeysOfDate(_, _)
\* the keys of the event blocks of one date, in document order
KeysOfDate(evs, date) ==
    IF evs = << >> THEN << >>
    ELSE IF Head(evs).uid[1] = date
    THEN << Head(evs).uid[2] >> \o KeysOfDate(Tail(evs), date)
    ELSE KeysOfDate(Tail(evs), date)

MinutesOf(hm) == 60 * hm[1] + hm[2]

\* the sunrise of these times is strictly after the end of the fajr event
SunriseAfterFajrEnd(times) ==
    MinutesOf(times["sunrise"]) > MinutesOf(times["fajr"]) + EVENTS[2].duration

EventKeys == << "prefajr", "fajr", "dhuhr", "asr", "maghrib", "isha" >>

KeyIndex(key) == CHOOSE i \in 1..Len(EventKeys) : EventKeys[i] = key

\* the (year, month) periods from the month of t through the month that
\* holds t + DAYS_AHEAD, by day numbers
ExpectedPeriods(t) ==
    { p \in (t[1]..(t[1] + 1)) \X (1..12) :
        /\ ~TupleLess(p, << t[1], t[2] >>)
        /\ ToOrdinal(<< p[1], p[2], 1 >>) <= ToOrdinal(t) + DAYS_AHEAD }

\* the fetch of (y, m) returned a row of day number dn whose six cells parse
ReturnedParsed(y, m, dn) ==
    \E i \in 1..Len(fetch_log) :
        /\ fetch_log[i] = << y, m >>
        /\ \E j \in 1..Len(responses[i]) :
             LET row == responses[i][j]
             IN  /\ IsInt(row.day)
                 /\ IntOf(row.day) = dn
                 /\ \A c \in 1..Len(time_keys) :
                      parse_prayer_time(Strip(row.cells[c]), time_keys[c]) # None

\* the day numbers of the rows the i-th fetch returned
ReturnedDays(i) ==
    { IntOf(responses[i][j].day) :
        j \in { r \in 1..Len(responses[i]) : IsInt(responses[i][r].day) } }

\* the months since year 0
MonthIndex(dt) == 12 * dt[1] + dt[2]

\* today <= <<y, m, dn>> <= today + DAYS_AHEAD, by day numbers
WithinHorizon(y, m, dn) ==
    ToOrdinal(<< y, m, dn >>) - ToOrdinal(today) \in 0..DAYS_AHEAD

\* the hour and the minute as written in a raw string of the expected shape
WrittenHour(s) ==
    IF s[2] = ":" THEN DigitVal(s[1]) ELSE 10 * DigitVal(s[1]) + DigitVal(s[2])

WrittenMinute(s) ==
    IF s[2] = ":" THEN 10 * DigitVal(s[3]) + DigitVal(s[4])
    ELSE 10 * DigitVal(s[4]) + DigitVal(s[5])

\* the places of the line breaks of a folded line
Breaks(s) == { i \in 1..(Len(s) - 1) : s[i] = "CR" /\ s[i + 1] = "LF" }

\* the k-th of them
BreakAt(s, k) ==
    CHOOSE b \in Breaks(s) : Cardinality({ x \in Breaks(s) : x < b }) = k - 1

\* the physical lines of a folded line
PhysicalLines(s) ==
    LET n == Cardinality(Breaks(s)) + 1
    IN  [ k \in 1..n |->
            SubSeq(s,
                   IF k = 1 THEN 1 ELSE BreakAt(s, k - 1) + 2,
                   IF k = n THEN Len(s) ELSE BreakAt(s, k) - 1) ]

StripOneSpace(s) == IF s # << >> /\ Head(s) = " " THEN Tail(s) ELSE s

\* unfolding: one leading space is taken off every physical line but the first
Unfold(s) ==
    LET phys == PhysicalLines(s)
    IN  Concat([ i \in 1..Len(phys) |->
                   IF i = 1 THEN phys[i] ELSE StripOneSpace(phys[i]) ])

-----------------------------------------------------------------------------
(* The properties.                                                         *)

C2_WriteIffDataCollected ==
    Terminated =>
        IF all_days = << >>
        THEN pc = "exit_error" /\ writes = 0 /\ output = << >>
        ELSE pc = "done" /\ writes = 1 /\ output = parts /\ parts # << >>

\* C3: once collect_prayer_times has returned, a date is a key of the mapping
\* exactly when it is within [today, today + DAYS_AHEAD], it is a valid
\* calendar date, and the fetch of its period returned its day number in a
\* row whose six cells all parse; and every entry holds a time for each of
\* the six slots.
C3_RetainedIffInWindowValidParsed ==
    CollectionDone =>
        /\ \A n \in 1..Len(all_days) :
             LET date == all_days[n].k
             IN  /\ IsValidDate(date[1], date[2], date[3])
                 /\ WithinHorizon(date[1], date[2], date[3])
                 /\ ReturnedParsed(date[1], date[2], date[3])
                 /\ \A key \in PrayerSlots :
                      all_days[n].v[key] # None /\ Len(all_days[n].v[key]) = 2
        /\ \A i \in 1..Len(fetch_log) :
             \A dn \in ReturnedDays(i) :
                 LET y == fetch_log[i][1]
                     m == fetch_log[i][2]
                 IN  ( /\ IsValidDate(y, m, dn)
                       /\ WithinHorizon(y, m, dn)
                       /\ ReturnedParsed(y, m, dn) )
                     => HasKey(all_days, << y, m, dn >>)
        /\ \A i, j \in 1..Len(all_days) : i # j => all_days[i].k # all_days[j].k

\* C3: two rows were returned, one retained and one discarded
C3_Witness ==
    /\ CollectionDone
    /\ rows_seen = 2
    /\ Len(all_days) = 1
    /\ all_days[1].k = today

\* C4: a parsed string yields the minute as written, and the hour as written
\* plus 12 for asr, maghrib and isha when it is below 12, else the hour as
\* written.
C4_SlotRule ==
    pc = "parsed" /\ result # None =>
        /\ result[2] = WrittenMinute(raw)
        /\ result[1] = IF prayer_key \in { "asr", "maghrib", "isha" }
                          /\ WrittenHour(raw) < 12
                       THEN WrittenHour(raw) + 12
                       ELSE WrittenHour(raw)

\* C4: dhuhr "1:05" stays (1, 5), and an evening slot was moved by 12
C4_Witness ==
    /\ pc = "parsed"
    /\ \/ prayer_key = "dhuhr" /\ raw = << "1", ":", "0", "5" >> /\ result = << 1, 5 >>
       \/ prayer_key = "isha" /\ raw = << "1", "1", ":", "5", "0" >> /\ result = << 23, 50 >>

\* C5, as claimed: every value parse_prayer_time returns has its hour in
\* 0..23 and its minute in 0..59.
C5_TimeInRange ==
    pc = "parsed" /\ result # None =>
        result[1] \in 0..23 /\ result[2] \in 0..59

\* C6: every physical line of the folded line is at most 75 octets, every
\* physical line after the first begins with a space, a line over 75 octets
\* is split and a line of at most 75 octets is returned unchanged.
C6_PhysicalLinesFit ==
    pc = "folded" =>
        LET phys == PhysicalLines(folded)
        IN  /\ \A i \in 1..Len(phys) : Utf8Len(phys[i]) <= FoldLimit
            /\ \A i \in 2..Len(phys) : phys[i] # << >> /\ phys[i][1] = " "
            /\ Utf8Len(line) > FoldLimit => Len(phys) > 1
            /\ Utf8Len(line) <= FoldLimit => folded = line

\* C6: a line of four-octet characters folded into three physical lines
C6_Witness ==
    /\ pc = "folded"
    /\ Len(PhysicalLines(folded)) >= 3
    /\ \E i \in 1..Len(line) : Utf8Width(line[i]) = 4

\* C7: unfolding the folded line gives back the content line.
C7_FoldRoundTrip == pc = "folded" => Unfold(folded) = line

\* C7: a continuation line that begins with the inserted space and a space
\* of the content
C7_Witness ==
    /\ pc = "folded"
    /\ \E i \in 2..Len(PhysicalLines(folded)) :
         LET p == PhysicalLines(folded)[i]
         IN  Len(p) >= 2 /\ p[1] = " " /\ p[2] = " "

\* C8: the document is the header, the timezone block, the event blocks and
\* the footer; the event blocks are grouped by date, the dates ascending,
\* every retained date present, and within a date the events are in the
\* order of their declaration.
C8_DocumentLayout ==
    DocProduced =>
        /\ Len(parts) >= 3 + Len(all_days)
        /\ parts[1].kind = "header"
        /\ parts[2].kind = "vtimezone"
        /\ parts[Len(parts)].kind = "footer"
        /\ \A i \in 3..(Len(parts) - 1) : parts[i].kind = "vevent"
        /\ \A i, j \in 1..Len(DocEvents) :
             i < j =>
                 \/ TupleLess(DocEvents[i].uid[1], DocEvents[j].uid[1])
                 \/ /\ DocEvents[i].uid[1] = DocEvents[j].uid[1]
                    /\ KeyIndex(DocEvents[i].uid[2]) < KeyIndex(DocEvents[j].uid[2])
        /\ { DocEvents[i].uid[1] : i \in 1..Len(DocEvents) }
               = { all_days[n].k : n \in 1..Len(all_days) }

\* C8: a document made from a mapping whose insertion order is not ascending
C8_Witness ==
    /\ DocProduced
    /\ Len(all_days) >= 2
    /\ TupleLess(all_days[2].k, all_days[1].k)

\* C9: the time source is called once for each period from the month of
\* today through the month of today + DAYS_AHEAD, for no other, in ascending
\* order, whatever the fetches return, the valid in-window days of every
\* period being kept.  The month loop ends: each iteration moves the cursor
\* one month on and adds one period, and the cursor never passes the month
\* after that of today + DAYS_AHEAD; the fetch loop ends: it consumes one
\* period of the sorted list at a time.
C9_EveryPeriodFetchedOnce ==
    /\ months_to_fetch \subseteq ExpectedPeriods(today)
    /\ \A i \in 1..Len(fetch_log) : fetch_log[i] \in ExpectedPeriods(today)
    /\ \A i, j \in 1..Len(fetch_log) :
         i < j => TupleLess(fetch_log[i], fetch_log[j])
    /\ pc = "months" =>
         /\ d[3] = 1
         /\ d[1] \in today[1]..(today[1] + 1) /\ d[2] \in 1..12
         /\ MonthIndex(d) = MonthIndex(today) + Cardinality(months_to_fetch)
         /\ Cardinality(months_to_fetch) <= Cardinality(ExpectedPeriods(today))
    /\ pc = "fetch" =>
         /\ months_to_fetch = ExpectedPeriods(today)
         /\ Len(fetch_log) + Len(queue) = Cardinality(months_to_fetch)
    /\ CollectionDone =>
         /\ { fetch_log[i] : i \in 1..Len(fetch_log) } = ExpectedPeriods(today)
         /\ \A i \in 1..Len(fetch_log) :
              \A dn \in ReturnedDays(i) :
                  LET y == fetch_log[i][1]
                      m == fetch_log[i][2]
                  IN  ( /\ IsValidDate(y, m, dn)
                        /\ WithinHorizon(y, m, dn)
                        /\ ReturnedParsed(y, m, dn) )
                      => HasKey(all_days, << y, m, dn >>)

\* C9: a fetch returned nothing, a later one returned a day that was kept,
\* and the periods went from December to January
C9_Witness ==
    /\ CollectionDone
    /\ all_days # << >>
    /\ \E i, j \in 1..Len(responses) :
         i < j /\ responses[i] = << >> /\ responses[j] # << >>
    /\ \E i \in 1..(Len(fetch_log) - 1) :
         fetch_log[i][2] = 12 /\ fetch_log[i + 1] = << fetch_log[i][1] + 1, 1 >>

\* the start and the end the claim gives an event: the anchor's wall clock
\* minus the offset, a day earlier when the offset exceeds the minutes since
\* midnight, and the duration later
ClaimedStart(date, hm, offset) ==
    IF MinutesOf(hm) >= offset
    THEN [ date |-> date, min |-> MinutesOf(hm) - offset ]
    ELSE [ date |-> PrevDay(date), min |-> MinutesOf(hm) - offset + 1440 ]

ClaimedEnd(start, duration) ==
    IF start.min + duration < 1440
    THEN [ date |-> start.date, min |-> start.min + duration ]
    ELSE [ date |-> NextDay(start.date), min |-> start.min + duration - 1440 ]

\* C10: in the document every retained date has, for every declared event,
\* one block whose identifier is the date and the key, whose start is the
\* anchor time minus the offset and whose end is the start plus the
\* duration; every block starts before it ends, and no two blocks share an
\* identifier.
C10_EventTimesAndIds ==
    DocProduced =>
        /\ \A n \in 1..Len(all_days), e \in 1..Len(EVENTS) :
             \E i \in 1..Len(DocEvents) :
                 LET ev == DocEvents[i]
                     start == ClaimedStart(all_days[n].k,
                                           all_days[n].v[EVENTS[e].prayer_key],
                                           EVENTS[e].offset)
                 IN  /\ ev.uid = << all_days[n].k, EVENTS[e].key >>
                     /\ ev.dtstart = start
                     /\ ev.dtend = ClaimedEnd(start, EVENTS[e].duration)
        /\ \A i \in 1..Len(DocEvents) :
             DtLess(DocEvents[i].dtstart, DocEvents[i].dtend)
        /\ \A i, j \in 1..Len(DocEvents) :
             i # j => DocEvents[i].uid # DocEvents[j].uid

\* C10: a pre-dawn event that starts on the day before its date, and an isha
\* event that ends on the day after
C10_Witness ==
    /\ DocProduced
    /\ \E i, j \in 1..Len(DocEvents) :
         /\ DocEvents[i].uid[2] = "prefajr"
         /\ DocEvents[i].dtstart.date = PrevDay(DocEvents[i].uid[1])
         /\ DocEvents[j].uid[2] = "isha"
         /\ DocEvents[j].dtend.date = NextDay(DocEvents[j].uid[1])

====
